---- MODULE Spec2Model ----
(***************************************************************************)
(* Model of src/dataset_utils.py: the two fetchers, the two reorganizers   *)
(* (reorganize_dataset_kaggle, organize_dataset_nih), the counter          *)
(* (get_dataset_counts) and the statistics (get_dataset_stats).            *)
(*                                                                         *)
(* Split ratios are Python floats.  A ratio is written <<p, q>> for the    *)
(* float literal p/q and is converted to the nearest IEEE-754 double; the  *)
(* products ratio * n and the sum of the ratios are computed in double     *)
(* precision, bit for bit, on natural numbers kept as limb sequences.      *)
(***************************************************************************)
EXTENDS Integers, Sequences, FiniteSets, TLC

VARIABLES
    dirs,       \* the directories of the file system (paths)
    files,      \* the regular files: path -> content
    lastRun,    \* what the last reorganizer call did
    runs,       \* the number of reorganizer calls so far
    split_in,   \* a split on its own: the ratios and the list length
    split_out,  \* ... and the slices each reorganizer makes of the list
    counted,    \* what the last get_dataset_counts call returned
    stats,      \* what the last get_dataset_stats call did
    fetch,      \* fetch_nih_data: its arguments and its place in the loop
    fetch_log,  \* ... and the downloads and extractions it has made
    kaggle_fetched  \* what the last fetch_data_kaggle call did

fsVars == <<dirs, files>>
reorgVars == <<lastRun, runs>>
splitVars == <<split_in, split_out>>
countVars == <<counted, stats>>
fetchVars == <<fetch, fetch_log, kaggle_fetched>>
vars ==
    <<dirs, files, lastRun, runs, split_in, split_out, counted, stats, fetch,
      fetch_log, kaggle_fetched>>

(***************************************************************************)
(* Natural numbers of any size: sequences of limbs (digits in base 2^15),  *)
(* least significant limb first, without high zero limbs (zero is the      *)
(* empty sequence).  A limb times a list length stays below 2^31.          *)
(***************************************************************************)
Base == 2^15
LimbBits == CHOOSE k \in 1..30 : 2^k = Base

RECURSIVE BNFromInt(_)
BNFromInt(n) == IF n = 0 THEN <<>> ELSE <<n % Base>> \o BNFromInt(n \div Base)

RECURSIVE BNToInt(_)
BNToInt(a) == IF a = <<>> THEN 0 ELSE a[1] + Base * BNToInt(Tail(a))

RECURSIVE BNNorm(_)
BNNorm(a) ==
    IF a = <<>> THEN <<>>
    ELSE IF a[Len(a)] = 0 THEN BNNorm(SubSeq(a, 1, Len(a) - 1)) ELSE a

RECURSIVE BNAddC(_, _, _)
BNAddC(a, b, c) ==
    IF a = <<>> /\ b = <<>> THEN (IF c = 0 THEN <<>> ELSE <<c>>)
    ELSE LET x == IF a = <<>> THEN 0 ELSE a[1]
             y == IF b = <<>> THEN 0 ELSE b[1]
             s == x + y + c
         IN  <<s % Base>> \o BNAddC(IF a = <<>> THEN <<>> ELSE Tail(a),
                                    IF b = <<>> THEN <<>> ELSE Tail(b), s \div Base)

BNAdd(a, b) == BNNorm(BNAddC(a, b, 0))

RECURSIVE BNMulC(_, _, _)
BNMulC(a, n, c) ==
    IF a = <<>> THEN BNFromInt(c)
    ELSE LET s == a[1] * n + c IN <<s % Base>> \o BNMulC(Tail(a), n, s \div Base)

\* a * n for 0 <= n < Base
BNMulSmall(a, n) == BNNorm(BNMulC(a, n, 0))

\* a * 2^k
BNShl(a, k) ==
    IF a = <<>> THEN <<>>
    ELSE [i \in 1..(k \div LimbBits) |-> 0] \o BNMulSmall(a, 2^(k % LimbBits))

\* a \div 2^k
BNShr(a, k) ==
    LET d == k \div LimbBits
        j == k % LimbBits
        L == Len(a)
        limb(i) == IF i <= L THEN a[i] ELSE 0
    IN  IF d >= L THEN <<>>
        ELSE BNNorm([i \in 1..(L - d) |->
                 (limb(i + d) \div 2^j) + (limb(i + d + 1) % 2^j) * 2^(LimbBits - j)])

\* a % 2^k = 0
BNLowZero(a, k) ==
    /\ \A i \in 1..(k \div LimbBits) : i > Len(a) \/ a[i] = 0
    /\ \/ k \div LimbBits + 1 > Len(a)
       \/ a[k \div LimbBits + 1] % 2^(k % LimbBits) = 0

\* bit i of a (bit 0 is the lowest)
BNBit(a, i) ==
    IF i \div LimbBits + 1 > Len(a) THEN 0
    ELSE (a[i \div LimbBits + 1] \div 2^(i % LimbBits)) % 2

\* the number of bits of a
BNBitLen(a) ==
    IF a = <<>> THEN 0
    ELSE (Len(a) - 1) * LimbBits
         + (CHOOSE k \in 1..LimbBits : 2^(k - 1) <= a[Len(a)] /\ a[Len(a)] < 2^k)

(***************************************************************************)
(* Non-negative doubles: [m, e] stands for m * 2^e with m of exactly 53    *)
(* bits (or m zero and e = 0), so that equal values are equal records.     *)
(* The model's values stay far from the subnormal and overflow ranges.     *)
(***************************************************************************)
MantissaBits == 53

FZero == [m |-> <<>>, e |-> 0]

\* Round N * 2^e (plus a non-zero tail below N when sticky) to 53 bits,
\* to nearest, ties to even.
FRound(N0, e, sticky) ==
    LET N == BNNorm(N0)
        L == BNBitLen(N)
    IN  IF L = 0 THEN FZero
        ELSE IF L <= MantissaBits
          THEN [m |-> BNShl(N, MantissaBits - L), e |-> e - (MantissaBits - L)]
        ELSE LET k    == L - MantissaBits
                 kept == BNShr(N, k)
                 rest == sticky \/ ~BNLowZero(N, k - 1)
                 up   == BNBit(N, k - 1) = 1 /\ (rest \/ BNBit(kept, 0) = 1)
                 r    == IF up THEN BNAdd(kept, <<1>>) ELSE kept
             IN  IF BNBitLen(r) > MantissaBits
                 THEN [m |-> BNShr(r, 1), e |-> e + k + 1]
                 ELSE [m |-> r, e |-> e + k]

FOne == FRound(<<1>>, 0, FALSE)

\* The limbs the long division of a literal produces below the point
\* before rounding: enough to leave more than 53 significant bits of any
\* p/q >= 2^-20.
DivisionLimbs == (MantissaBits + 20) \div LimbBits + 1

RECURSIVE DivLimbs(_, _, _, _)
DivLimbs(acc, r, q, k) ==
    IF k = 0 THEN [n |-> acc, r |-> r]
    ELSE DivLimbs(<<(r * Base) \div q>> \o acc, (r * Base) % q, q, k - 1)

\* The double a Python float literal p/q denotes (correctly rounded),
\* for 0 <= p and 0 < q < 2^16.
PyFloat(lit) ==
    LET p == lit[1]
        q == lit[2]
        d == DivLimbs(BNFromInt(p \div q), p % q, q, DivisionLimbs)
    IN  FRound(d.n, 0 - DivisionLimbs * LimbBits, d.r # 0)

\* float + float
PyAdd(x, y) ==
    LET e == IF x.e < y.e THEN x.e ELSE y.e
    IN  FRound(BNAdd(BNShl(x.m, x.e - e), BNShl(y.m, y.e - e)), e, FALSE)

\* float * int
PyMul(x, n) == FRound(BNMulSmall(x.m, n), x.e, FALSE)

\* math.ceil(float) -> int
MutCeilIsFloor(x) ==
    IF x.e >= 0 THEN BNToInt(BNShl(x.m, x.e)) ELSE BNToInt(BNShr(x.m, 0 - x.e))

PyCeil(x) ==
    IF x.e >= 0 THEN BNToInt(BNShl(x.m, x.e))
    ELSE BNToInt(BNShr(x.m, 0 - x.e)) + (IF BNLowZero(x.m, 0 - x.e) THEN 0 ELSE 1)

\* sum(split_ratios): starts from the int 0 and adds left to right.
PySum(ratios) ==
    PyAdd(PyAdd(PyAdd(FZero, PyFloat(ratios[1])), PyFloat(ratios[2])),
          PyFloat(ratios[3]))

\* sum(split_ratios) == 1.0
SumIsOne(ratios) == PySum(ratios) = FOne

\* ceil(ratio * n)
CeilOfProduct(lit, n) == PyCeil(PyMul(PyFloat(lit), n))

(***************************************************************************)
(* The literals and triples the specifications below draw their ratios     *)
(* from, and, for speed, the values of SumIsOne and CeilOfProduct on them  *)
(* tabulated once; outside the tables the operators are evaluated.         *)
(***************************************************************************)
MaxN == 25      \* the longest image list the split is applied to

Tenths == {<<p, 10>> : p \in 0..10}
Literals == Tenths \cup {<<25, 100>>, <<28, 100>>, <<56, 100>>, <<16, 100>>}

\* The triples of tenths that add up to 1, two triples of other shapes
\* that do too, and two that do not.
TenthTriples ==
    {<< <<a, 10>>, <<b, 10>>, <<10 - a - b, 10>> >> : a \in 0..10, b \in 0..10}
    \cap (Tenths \X Tenths \X Tenths)
RatioTriples ==
    TenthTriples
    \cup { << <<5, 10>>, <<25, 100>>, <<25, 100>> >>,
           << <<28, 100>>, <<56, 100>>, <<16, 100>> >>,
           << <<8, 10>>, <<1, 10>>, <<2, 10>> >>,
           << <<5, 10>>, <<1, 10>>, <<1, 10>> >> }

SumIsOneTable == [ratios \in RatioTriples |-> SumIsOne(ratios)]
CeilOfProductTable == [lit \in Literals, n \in 0..MaxN |-> CeilOfProduct(lit, n)]

\* assert sum(split_ratios) == 1.0
RatiosAccepted(ratios) ==
    IF ratios \in RatioTriples THEN SumIsOneTable[ratios] ELSE SumIsOne(ratios)

\* ceil(split_ratios[i] * total_images)
ceil_product(lit, n) ==
    IF lit \in Literals /\ n \in 0..MaxN
    THEN CeilOfProductTable[lit, n] ELSE CeilOfProduct(lit, n)

(***************************************************************************)
(* Python list slicing s[start:stop].  A bound is None when omitted and    *)
(* Some(i) when given; a negative bound counts from the end and every      *)
(* bound is clamped to the list.                                           *)
(***************************************************************************)
None == <<>>
Some(i) == <<i>>

PySliceIndex(b, len, dflt) ==
    IF b = None THEN dflt
    ELSE IF b[1] < 0 THEN (IF b[1] + len < 0 THEN 0 ELSE b[1] + len)
    ELSE IF b[1] > len THEN len ELSE b[1]

PySlice(s, start, stop) ==
    SubSeq(s, PySliceIndex(start, Len(s), 0) + 1, PySliceIndex(stop, Len(s), Len(s)))

(***************************************************************************)
(* The split of one class's image list into train, val and test slices.    *)
(* The same lines appear in both reorganizers.                             *)
(***************************************************************************)
MutSplitValStop(all_data, split_ratios) ==
    LET total_images == Len(all_data)
        train_size   == ceil_product(split_ratios[1], total_images)
        val_size     == ceil_product(split_ratios[2], total_images)
    IN  [train_size |-> train_size, val_size |-> val_size,
         train |-> PySlice(all_data, None, Some(train_size)),
         val   |-> PySlice(all_data, Some(train_size), Some(val_size)),
         test  |-> PySlice(all_data, Some(train_size + val_size), None)]

KaggleSplit(all_data, split_ratios) ==
    LET total_images == Len(all_data)
        train_size   == ceil_product(split_ratios[1], total_images)
        val_size     == ceil_product(split_ratios[2], total_images)
    IN  [train_size |-> train_size, val_size |-> val_size,
         train |-> PySlice(all_data, None, Some(train_size)),
         val   |-> PySlice(all_data, Some(train_size), Some(train_size + val_size)),
         test  |-> PySlice(all_data, Some(train_size + val_size), None)]

NihSplit(img_list, split_ratios) ==
    LET total_images == Len(img_list)
        train_size   == ceil_product(split_ratios[1], total_images)
        val_size     == ceil_product(split_ratios[2], total_images)
    IN  [train_size |-> train_size, val_size |-> val_size,
         train |-> PySlice(img_list, None, Some(train_size)),
         val   |-> PySlice(img_list, Some(train_size), Some(train_size + val_size)),
         test  |-> PySlice(img_list, Some(train_size + val_size), None)]

(***************************************************************************)
(* The file system.  A path is a sequence of names; the content of a file  *)
(* is the path of the raw file it was first read from.                     *)
(***************************************************************************)
join(path, name) == Append(path, name)
basename(path) == path[Len(path)]

parent(path) == SubSeq(path, 1, Len(path) - 1)

exists(fs, path) == path \in fs.dirs \/ path \in DOMAIN fs.files
isfile(fs, path) == path \in DOMAIN fs.files

\* A name on the way to the path is a regular file.
under_file(fs, path) ==
    \E k \in 1..(Len(path) - 1) : SubSeq(path, 1, k) \in DOMAIN fs.files

\* The exception open, os.listdir and os.mkdir raise for a path that is
\* not there.
missing_error(fs, path) ==
    IF under_file(fs, path) THEN "NotADirectoryError" ELSE "FileNotFoundError"

\* The names in a directory.  os.listdir gives them in an arbitrary order,
\* here the order CHOOSE fixes; its callers shuffle or count them.
RECURSIVE SetToSeq(_)
SetToSeq(S) ==
    IF S = {} THEN <<>>
    ELSE LET x == CHOOSE x \in S : TRUE IN <<x>> \o SetToSeq(S \ {x})

listdir(fs, d) ==
    SetToSeq({basename(q) : q \in {q \in fs.dirs \cup DOMAIN fs.files :
                                     Len(q) = Len(d) + 1 /\ SubSeq(q, 1, Len(d)) = d}})

\* Whether os.listdir(d) returns ("ok") or what it raises.
listdir_status(fs, d) ==
    IF d \in fs.dirs THEN "ok"
    ELSE IF isfile(fs, d) THEN "NotADirectoryError"
    ELSE missing_error(fs, d)

\* os.makedirs(d, exist_ok=True): the outcome and the file system after it.
makedirs(fs, d) ==
    IF isfile(fs, d) THEN [status |-> "FileExistsError", fs |-> fs]
    ELSE IF under_file(fs, d) THEN [status |-> "NotADirectoryError", fs |-> fs]
    ELSE [status |-> "ok",
          fs |-> [fs EXCEPT !.dirs = @ \cup {SubSeq(d, 1, k) : k \in 1..Len(d)}]]

\* shutil.copy(src, dst): the outcome and the file system after it.  A dst
\* that is a directory stands for the file of src's name in it; the same
\* file is refused, then src is opened for reading, then the target for
\* writing.
copy(fs, src, dst) ==
    LET target == IF dst \in fs.dirs THEN join(dst, basename(src)) ELSE dst
        raise(e) == [status |-> e, fs |-> fs]
    IN  IF isfile(fs, src) /\ src = target THEN raise("SameFileError")
        ELSE IF src \in fs.dirs THEN raise("IsADirectoryError")
        ELSE IF ~isfile(fs, src) THEN raise(missing_error(fs, src))
        ELSE IF target \in fs.dirs THEN raise("IsADirectoryError")
        ELSE IF Len(target) > 1 /\ parent(target) \notin fs.dirs
        THEN raise(missing_error(fs, target))
        ELSE [status |-> "ok",
              fs |-> [fs EXCEPT !.files = (target :> fs.files[src]) @@ @]]

\* str.startswith('.') over the names of the model
HiddenNames == {".DS_Store"}
startswith_dot(name) == name \in HiddenNames

(***************************************************************************)
(* random.shuffle(x): for i from len(x)-1 down to 1, swap x[i] with x[j],  *)
(* j = randbelow(i + 1).  rnd[i] is the draw made at index i (0-based).    *)
(***************************************************************************)
RECURSIVE ShuffleFrom(_, _, _)
ShuffleFrom(x, rnd, i) ==
    IF i < 1 THEN x
    ELSE LET j == rnd[i]
         IN  ShuffleFrom([x EXCEPT ![i + 1] = x[j + 1], ![j + 1] = x[i + 1]],
                         rnd, i - 1)

shuffle(x, rnd) == ShuffleFrom(x, rnd, Len(x) - 1)

(***************************************************************************)
(* The copy loop shared by both reorganizers: for each split and each      *)
(* image of its slice, make <dest>/<split>/<class> and copy the image      *)
(* there under its own name.  An exception ends the run.                   *)
(***************************************************************************)
SplitNames == <<"train", "val", "test">>

\* The (image, directory) pairs in the order the loop visits them.
CopyJobs(dest, class_name, sp) ==
    LET jobs(split, split_data) ==
            [k \in 1..Len(split_data) |->
                [img_path |-> split_data[k],
                 split_class_dir |-> join(join(dest, split), class_name)]]
    IN  jobs("train", sp.train) \o jobs("val", sp.val) \o jobs("test", sp.test)

RECURSIVE CopyLoop(_, _)
CopyLoop(rs, jobs) ==
    IF jobs = <<>> \/ rs.status # "ok" THEN rs
    ELSE LET job == Head(jobs)
             md  == makedirs(rs.fs, job.split_class_dir)
             c   == copy(md.fs, job.img_path,
                         join(job.split_class_dir, basename(job.img_path)))
         IN  IF md.status # "ok"
             THEN [rs EXCEPT !.status = md.status, !.io = @ \cup {"makedirs"}]
             ELSE CopyLoop([rs EXCEPT !.fs = c.fs, !.status = c.status,
                                      !.io = @ \cup {"makedirs", "copy"}],
                           Tail(jobs))

(***************************************************************************)
(* reorganize_dataset_kaggle(original_dataset, new_dataset, split_ratios)  *)
(***************************************************************************)
\* One iteration of the loop over class_names.
KaggleClass(rs, class_name, original_dataset, new_dataset, split_ratios, rnd) ==
    IF rs.status # "ok" \/ startswith_dot(class_name) THEN rs
    ELSE LET class_folder(folder) == join(join(original_dataset, folder), class_name)
             images(folder) ==
                 LET names == listdir(rs.fs, class_folder(folder))
                 IN  IF exists(rs.fs, class_folder(folder))
                     THEN [k \in 1..Len(names) |-> join(class_folder(folder), names[k])]
                     ELSE <<>>
             \* os.listdir raises on a class folder that exists and is not
             \* a directory, before anything is shuffled or copied.
             unlistable ==
                 {folder \in {"train", "val", "test"} :
                     /\ exists(rs.fs, class_folder(folder))
                     /\ listdir_status(rs.fs, class_folder(folder)) # "ok"}
             all_data == shuffle(images("train") \o images("val") \o images("test"),
                                 rnd[class_name])
             sp == KaggleSplit(all_data, split_ratios)
             rs1 == [rs EXCEPT !.io = @ \cup {"listdir"},
                               !.slices = (class_name :> sp) @@ @]
         IN  IF unlistable # {}
             THEN [rs EXCEPT !.status = "NotADirectoryError", !.io = @ \cup {"listdir"}]
             ELSE CopyLoop(rs1, CopyJobs(new_dataset, class_name, sp))

RECURSIVE KaggleClasses(_, _, _, _, _, _)
KaggleClasses(rs, class_names, original_dataset, new_dataset, split_ratios, rnd) ==
    IF class_names = <<>> THEN rs
    ELSE KaggleClasses(
            KaggleClass(rs, Head(class_names), original_dataset, new_dataset,
                        split_ratios, rnd),
            Tail(class_names), original_dataset, new_dataset, split_ratios, rnd)

\* The whole call; class_names is os.listdir(<original>/train) in the
\* order the file system gave it.
reorganize_dataset_kaggle(fs, original_dataset, new_dataset, split_ratios, class_names, rnd) ==
    LET rs0 == [fs |-> fs, status |-> "ok", io |-> {}, slices |-> <<>>, lists |-> <<>>]
        train == join(original_dataset, "train")
    IN  IF ~RatiosAccepted(split_ratios)
        THEN [rs0 EXCEPT !.status = "AssertionError"]
        ELSE IF listdir_status(fs, train) # "ok"
        THEN [rs0 EXCEPT !.status = listdir_status(fs, train), !.io = {"listdir"}]
        ELSE KaggleClasses([rs0 EXCEPT !.io = {"listdir"}], class_names,
                           original_dataset, new_dataset, split_ratios, rnd)

(***************************************************************************)
(* organize_dataset_nih(data_entry_file, data_path, split_ratios)          *)
(* The metadata table is a sequence of rows [image_index, finding_labels]; *)
(* a finding-labels string is a sequence of characters.                    *)
(***************************************************************************)
\* sub in s, for Python strings
PyIn(sub, s) ==
    \E i \in 0..(Len(s) - Len(sub)) : SubSeq(s, i + 1, i + Len(sub)) = sub

Pneumonia == <<"P", "n", "e", "u", "m", "o", "n", "i", "a">>
NoFinding == <<"N", "o", " ", "F", "i", "n", "d", "i", "n", "g">>

\* The class list a row is appended to ("" for none).
MutRowClassNormalFirst(row) ==
    IF PyIn(NoFinding, row.finding_labels) THEN "NORMAL"
    ELSE IF PyIn(Pneumonia, row.finding_labels) THEN "PNEUMONIA"
    ELSE ""

RowClass(row) ==
    IF PyIn(Pneumonia, row.finding_labels) THEN "PNEUMONIA"
    ELSE IF PyIn(NoFinding, row.finding_labels) THEN "NORMAL"
    ELSE ""

RECURSIVE ClassImages(_, _, _)
ClassImages(table, data_path, class_name) ==
    IF table = <<>> THEN <<>>
    ELSE (IF RowClass(Head(table)) = class_name
          THEN <<join(join(data_path, "images"), Head(table).image_index)>>
          ELSE <<>>)
         \o ClassImages(Tail(table), data_path, class_name)

NihClass(rs, class_name, img_list, data_path, split_ratios) ==
    IF rs.status # "ok" THEN rs
    ELSE LET sp == NihSplit(img_list, split_ratios)
         IN  CopyLoop([rs EXCEPT !.slices = (class_name :> sp) @@ @],
                      CopyJobs(data_path, class_name, sp))

organize_dataset_nih(fs, table, data_path, split_ratios) ==
    LET pneumonia_imgs == ClassImages(table, data_path, "PNEUMONIA")
        normal_imgs    == ClassImages(table, data_path, "NORMAL")
        rs0 == [fs |-> fs, status |-> "ok", io |-> {"read_csv"}, slices |-> <<>>,
                lists |-> [PNEUMONIA |-> pneumonia_imgs, NORMAL |-> normal_imgs]]
    IN  NihClass(NihClass(rs0, "PNEUMONIA", pneumonia_imgs, data_path, split_ratios),
                 "NORMAL", normal_imgs, data_path, split_ratios)

(***************************************************************************)
(* The reorganizers as state machines over the file system.                *)
(***************************************************************************)
MaxFiles == 2      \* images in the raw tree, and in a tree given as source
MaxRows == 2       \* rows of a metadata table
MaxRuns == 2       \* calls of reorganize_dataset_kaggle in a behaviour

\* The split ratios a call is given: the default, an exact binary triple
\* and a triple summing to 1.1.
RunRatios ==
    { << <<8, 10>>, <<1, 10>>, <<1, 10>> >>,
      << <<5, 10>>, <<25, 100>>, <<25, 100>> >>,
      << <<8, 10>>, <<1, 10>>, <<2, 10>> >> }

ImageNames == {"a", "b"}
ClassNames == {"NORMAL", "PNEUMONIA"}

NoRun ==
    [op |-> "none", status |-> "ok", io |-> {}, slices |-> <<>>, lists |-> <<>>,
     source |-> <<>>, dest |-> <<>>, split_ratios |-> <<>>, table |-> <<>>,
     before |-> <<>>]

FS == [dirs |-> dirs, files |-> files]

\* The variables of the other state machines, at rest.
NoSplit == split_in = <<>> /\ split_out = <<>>
NoCount == counted = <<>> /\ stats = <<>>
NoFetch == fetch = <<>> /\ fetch_log = <<>> /\ kaggle_fetched = <<>>

(***************************************************************************)
(* Calls of reorganize_dataset_kaggle.  The raw tree holds every class     *)
(* folder of every split and a hidden file beside the class folders of     *)
(* train; the destination does not exist yet.  Some trees hold one thing   *)
(* more: a regular file beside the class folders of train, a folder among  *)
(* the images of a class, or a regular file where the train folder of the  *)
(* destination would be; it counts as one of the MaxFiles files.  Either   *)
(* tree may be given as source and as destination.                         *)
(***************************************************************************)
Roots == {<<"raw">>, <<"new">>}

RawSlots ==
    {<<"raw", s, c, n>> : s \in {"train", "val", "test"}, c \in ClassNames,
                          n \in ImageNames}
RawDirs ==
    {<<"raw">>}
    \cup {<<"raw", s>> : s \in {"train", "val", "test"}}
    \cup {<<"raw", s, c>> : s \in {"train", "val", "test"}, c \in ClassNames}
RawHidden == <<"raw", "train", ".DS_Store">>

RawOddFile == <<"raw", "train", "notes.txt">>
RawOddFolder == <<"raw", "train", "PNEUMONIA", "sub">>
NewOddFile == <<"new", "train">>
RawOddities == {"none", "file_in_train", "folder_in_class", "file_for_train"}

InitKaggle ==
    \E S \in SUBSET RawSlots, odd \in RawOddities :
       /\ Cardinality(S) + (IF odd = "none" THEN 0 ELSE 1) <= MaxFiles
       /\ files = [q \in S \cup {RawHidden}
                           \cup (IF odd = "file_in_train" THEN {RawOddFile} ELSE {})
                           \cup (IF odd = "file_for_train" THEN {NewOddFile} ELSE {})
                     |-> q]
       /\ dirs = RawDirs \cup (IF odd = "folder_in_class" THEN {RawOddFolder} ELSE {})
                         \cup (IF odd = "file_for_train" THEN {<<"new">>} ELSE {})
    /\ lastRun = NoRun
    /\ runs = 0
    /\ NoSplit /\ NoCount /\ NoFetch

\* All orders of a list (os.listdir gives the names in any order).
Orders(names) ==
    {o \in [1..Len(names) -> {names[k] : k \in 1..Len(names)}] :
        \A i, j \in 1..Len(names) : i # j => o[i] # o[j]}

\* The draws random.shuffle makes on a list of n elements.
Draws(n) == {d \in [1..(n - 1) -> 0..(n - 1)] : \A i \in 1..(n - 1) : d[i] <= i}

\* What os.listdir finds for a class under the three raw folders of a
\* source tree.
SourceImages(fs, original_dataset, class_name) ==
    {q \in fs.dirs \cup DOMAIN fs.files :
        /\ Len(q) = Len(original_dataset) + 3
        /\ SubSeq(q, 1, Len(original_dataset)) = original_dataset
        /\ q[Len(original_dataset) + 1] \in {"train", "val", "test"}
        /\ q[Len(original_dataset) + 2] = class_name}

\* One sequence of draws for each class of the source tree.
ClassDraws(fs, original_dataset, classes) ==
    {r \in [classes -> UNION {Draws(n) : n \in 0..MaxFiles}] :
        \A c \in classes :
            r[c] \in Draws(Cardinality(SourceImages(fs, original_dataset, c)))}

KaggleRun ==
    /\ runs < MaxRuns
    /\ \E original_dataset \in Roots, new_dataset \in Roots, split_ratios \in RunRatios :
         LET listed == listdir(FS, join(original_dataset, "train"))
             hidden == SelectSeq(listed, startswith_dot)
             shown == SelectSeq(listed, LAMBDA name : ~startswith_dot(name))
             classes == {shown[k] : k \in 1..Len(shown)}
         IN  /\ \A c \in classes :
                    Cardinality(SourceImages(FS, original_dataset, c)) <= MaxFiles
             \* The hidden names are skipped wherever they stand: they are
             \* listed first, the others in every order.
             /\ \E class_order \in Orders(shown) :
                \E rnd \in ClassDraws(FS, original_dataset, classes) :
                \E rs \in {reorganize_dataset_kaggle(FS, original_dataset, new_dataset,
                               split_ratios, hidden \o class_order, rnd)} :
                      /\ dirs' = rs.fs.dirs
                      /\ files' = rs.fs.files
                      /\ lastRun' = [op |-> "kaggle", status |-> rs.status, io |-> rs.io,
                                     slices |-> rs.slices, lists |-> rs.lists,
                                     source |-> original_dataset,
                                     dest |-> new_dataset, split_ratios |-> split_ratios,
                                     table |-> <<>>, before |-> files]
                      /\ runs' = runs + 1
                      /\ UNCHANGED <<splitVars, countVars, fetchVars>>

Spec == InitKaggle /\ [][KaggleRun]_vars

(***************************************************************************)
(* One call of organize_dataset_nih on a data folder whose images folder   *)
(* holds some of the images the metadata table names; a name may also be   *)
(* that of a folder.                                                       *)
(***************************************************************************)
NihRoot == <<"nih">>

Str_Pneumonia_Infiltration ==
    <<"P", "n", "e", "u", "m", "o", "n", "i", "a", "|",
      "I", "n", "f", "i", "l", "t", "r", "a", "t", "i", "o", "n">>
Str_No_Finding == <<"N", "o", " ", "F", "i", "n", "d", "i", "n", "g">>
Str_Infiltration == <<"I", "n", "f", "i", "l", "t", "r", "a", "t", "i", "o", "n">>
Str_No_Finding_Pneumonia ==
    <<"N", "o", " ", "F", "i", "n", "d", "i", "n", "g", "|",
      "P", "n", "e", "u", "m", "o", "n", "i", "a">>
Str_Pneumothorax ==
    <<"P", "n", "e", "u", "m", "o", "t", "h", "o", "r", "a", "x">>

FindingLabels ==
    {Str_Pneumonia_Infiltration, Str_No_Finding, Str_Infiltration,
     Str_No_Finding_Pneumonia, Str_Pneumothorax}

Rows == [image_index : ImageNames, finding_labels : FindingLabels]
Tables == UNION {[1..k -> Rows] : k \in 0..MaxRows}

InitNih ==
    /\ \E kind \in [ImageNames -> {"absent", "file", "folder"}] :
          /\ files = [q \in {<<"nih", "images", n>> :
                                n \in {x \in ImageNames : kind[x] = "file"}} |-> q]
          /\ dirs = {NihRoot, <<"nih", "images">>}
                    \cup {<<"nih", "images", n>> :
                            n \in {x \in ImageNames : kind[x] = "folder"}}
    /\ lastRun = NoRun
    /\ runs = 0
    /\ NoSplit /\ NoCount /\ NoFetch

NihRun ==
    /\ runs = 0
    /\ \E split_ratios \in RunRatios, table \in Tables :
         \E rs \in {organize_dataset_nih(FS, table, NihRoot, split_ratios)} :
             /\ dirs' = rs.fs.dirs
             /\ files' = rs.fs.files
             /\ lastRun' = [op |-> "nih", status |-> rs.status, io |-> rs.io,
                            slices |-> rs.slices, lists |-> rs.lists,
                            source |-> NihRoot,
                            dest |-> NihRoot, split_ratios |-> split_ratios,
                            table |-> table, before |-> files]
             /\ runs' = runs + 1
             /\ UNCHANGED <<splitVars, countVars, fetchVars>>

SpecNih == InitNih /\ [][NihRun]_vars

(***************************************************************************)
(* The split on its own: both reorganizers' split lines applied to a list  *)
(* of n images under ratios drawn from RatioTriples.                       *)
(***************************************************************************)
IdleReorg == dirs = {} /\ files = <<>> /\ lastRun = NoRun /\ runs = 0

InitSplit ==
    /\ split_in \in [split_ratios : RatioTriples, n : 0..MaxN]
    /\ split_out = <<>>
    /\ IdleReorg /\ NoCount /\ NoFetch

SplitInput == [k \in 1..split_in.n |-> k]

\* Lines 65 and 85-92 of reorganize_dataset_kaggle.
SplitKaggle ==
    /\ "kaggle" \notin DOMAIN split_out
    /\ split_out' =
         ("kaggle" :> IF RatiosAccepted(split_in.split_ratios)
                      THEN [status |-> "ok",
                            sp |-> KaggleSplit(SplitInput, split_in.split_ratios)]
                      ELSE [status |-> "AssertionError", sp |-> <<>>])
         @@ split_out
    /\ UNCHANGED <<split_in, fsVars, reorgVars, countVars, fetchVars>>

\* Lines 119-125 of organize_dataset_nih.
SplitNih ==
    /\ "nih" \notin DOMAIN split_out
    /\ split_out' =
         ("nih" :> [status |-> "ok", sp |-> NihSplit(SplitInput, split_in.split_ratios)])
         @@ split_out
    /\ UNCHANGED <<split_in, fsVars, reorgVars, countVars, fetchVars>>

SpecSplit == InitSplit /\ [][SplitKaggle \/ SplitNih]_vars

(***************************************************************************)
(* get_dataset_counts(dataset_path)                                        *)
(***************************************************************************)
CountSplits == <<"train", "test", "val">>
CountClasses == <<"NORMAL", "PNEUMONIA">>

\* The folders the two loops visit, in order: each split folder, then,
\* when it exists, its class folders.  os.listdir raises on a class folder
\* that is a regular file, and no folder is visited after it.
RECURSIVE VisitedFolders(_, _, _)
VisitedFolders(fs, dataset_path, splits) ==
    IF splits = <<>> THEN <<>>
    ELSE LET folder_path == join(dataset_path, Head(splits))
             class_folders ==
                 [k \in 1..Len(CountClasses) |-> join(folder_path, CountClasses[k])]
             raising == {k \in 1..Len(class_folders) : isfile(fs, class_folders[k])}
             first == CHOOSE k \in raising : \A j \in raising : k <= j
         IN  IF ~exists(fs, folder_path)
             THEN <<folder_path>> \o VisitedFolders(fs, dataset_path, Tail(splits))
             ELSE IF raising # {}
             THEN <<folder_path>> \o SubSeq(class_folders, 1, first)
             ELSE <<folder_path>> \o class_folders
                  \o VisitedFolders(fs, dataset_path, Tail(splits))

\* len([file for file in os.listdir(p) if os.path.isfile(os.path.join(p, file))])
MutCountAllEntries(fs, class_folder_path) ==
    Len(listdir(fs, class_folder_path))

CountFiles(fs, class_folder_path) ==
    LET names == listdir(fs, class_folder_path)
    IN  Len(SelectSeq(names, LAMBDA file : isfile(fs, join(class_folder_path, file))))

\* class_counts after the loops
ClassCounts(fs, dataset_path) ==
    [split \in {"train", "test", "val"} |->
        [class_name \in {"NORMAL", "PNEUMONIA"} |->
            LET folder_path == join(dataset_path, split)
                class_folder_path == join(folder_path, class_name)
            IN  IF exists(fs, folder_path) /\ exists(fs, class_folder_path)
                THEN CountFiles(fs, class_folder_path) ELSE 0]]

\* The totals loop over class_counts.items() and counts.items().
RECURSIVE AddTotals(_, _, _)
AddTotals(totals, class_counts, items) ==
    IF items = <<>> THEN totals
    ELSE LET count == class_counts[Head(items)[1]][Head(items)[2]]
         IN  AddTotals([totals EXCEPT ![Head(items)[2]] = @ + count,
                                      !["Total"] = @ + count],
                       class_counts, Tail(items))

CountItems ==
    <<<<"train", "NORMAL">>, <<"train", "PNEUMONIA">>,
      <<"test", "NORMAL">>, <<"test", "PNEUMONIA">>,
      <<"val", "NORMAL">>, <<"val", "PNEUMONIA">>>>

MutTotalsSkipLastSplit(class_counts) ==
    AddTotals([c \in {"NORMAL", "PNEUMONIA", "Total"} |-> 0], class_counts,
              SubSeq(CountItems, 1, 4))

Totals(class_counts) ==
    AddTotals([c \in {"NORMAL", "PNEUMONIA", "Total"} |-> 0], class_counts, CountItems)

\* result_df: the rows train, test, val with their Total column, and the
\* Total row.
ResultTable(class_counts) ==
    [row \in {"train", "test", "val", "Total"} |->
        IF row = "Total" THEN Totals(class_counts)
        ELSE [col \in {"NORMAL", "PNEUMONIA", "Total"} |->
                IF col = "Total"
                THEN class_counts[row]["NORMAL"] + class_counts[row]["PNEUMONIA"]
                ELSE class_counts[row][col]]]

CountsFile == "dataset_counts.txt"

get_dataset_counts(fs, dataset_path) ==
    LET visited  == VisitedFolders(fs, dataset_path, CountSplits)
        warnings == SelectSeq(visited, LAMBDA q : ~exists(fs, q))
        notdir   == \E k \in 1..Len(visited) :
                        Len(visited[k]) = Len(dataset_path) + 2 /\ isfile(fs, visited[k])
        table    == ResultTable(ClassCounts(fs, dataset_path))
    IN  IF notdir
        THEN [status |-> "NotADirectoryError", warnings |-> warnings,
              table |-> <<>>, fs |-> fs]
        ELSE IF dataset_path \notin fs.dirs
        THEN [status |-> "OSError", warnings |-> warnings, table |-> <<>>, fs |-> fs]
        ELSE IF join(dataset_path, CountsFile) \in fs.dirs
        THEN [status |-> "IsADirectoryError", warnings |-> warnings,
              table |-> <<>>, fs |-> fs]
        ELSE [status |-> "ok", warnings |-> warnings, table |-> table,
              fs |-> [fs EXCEPT !.files = (join(dataset_path, CountsFile) :> table) @@ @]]

(***************************************************************************)
(* get_dataset_stats(dataset_path).  Every regular file of a class folder  *)
(* is an image PIL can open.                                               *)
(***************************************************************************)
StatsSplits == <<"train", "test", "val">>
StatsClasses == <<"NORMAL", "PNEUMONIA">>

\* The class folders in the order of the two loops.
StatsFolders(dataset_path) ==
    [k \in 1..(Len(StatsSplits) * Len(StatsClasses)) |->
        join(join(dataset_path, StatsSplits[((k - 1) \div Len(StatsClasses)) + 1]),
             StatsClasses[((k - 1) % Len(StatsClasses)) + 1])]

\* The loops over the images: the number of images read, or the exception
\* of os.listdir on a class folder that is a regular file, or that of
\* Image.open on a folder among the images.
RECURSIVE ReadImages(_, _)
ReadImages(fs, class_folders) ==
    IF class_folders = <<>> THEN [status |-> "ok", images |-> 0]
    ELSE LET class_folder_path == Head(class_folders)
             names == listdir(fs, class_folder_path)
             rest == ReadImages(fs, Tail(class_folders))
         IN  IF ~exists(fs, class_folder_path) THEN rest
             ELSE IF isfile(fs, class_folder_path)
             THEN [status |-> "NotADirectoryError", images |-> 0]
             ELSE IF \E k \in 1..Len(names) : join(class_folder_path, names[k]) \in fs.dirs
             THEN [status |-> "IsADirectoryError", images |-> 0]
             ELSE [rest EXCEPT !.images = @ + Len(names)]

StatsFile == "dataset_stats.json"

\* What json.dump has written when it reaches the mean, a tensor, which it
\* cannot encode.
StatsWritten == <<"{", "\"mean\"", ": ">>

\* The whole call.  Without an image total_pixels is 0 and the division
\* raises; with images the sums are tensors (0.0 + img_tensor.sum()), the
\* file is opened for writing and json.dump raises TypeError on the mean.
get_dataset_stats(fs, dataset_path) ==
    LET r == ReadImages(fs, StatsFolders(dataset_path))
        stats_path == join(dataset_path, StatsFile)
    IN  IF r.status # "ok" THEN [status |-> r.status, fs |-> fs]
        ELSE IF r.images = 0 THEN [status |-> "ZeroDivisionError", fs |-> fs]
        ELSE IF stats_path \in fs.dirs THEN [status |-> "IsADirectoryError", fs |-> fs]
        ELSE [status |-> "TypeError",
              fs |-> [fs EXCEPT !.files = (stats_path :> StatsWritten) @@ @]]

(***************************************************************************)
(* Calls of get_dataset_counts and get_dataset_stats on a tree in which    *)
(* any split folder and any class folder may be missing; a class folder    *)
(* holds up to MaxCount files.  Some trees hold one thing more: a folder   *)
(* in every class folder, or a regular file in the place of a missing      *)
(* class folder.                                                           *)
(***************************************************************************)
MaxCount == 2
CountRoot == <<"data">>
CountFileNames == <<"a", "b", "c", "d", "e", "f">>
Missing == <<>>

InitCount ==
    /\ \E present \in SUBSET {"train", "test", "val"} :
       \E held \in [present \X {"NORMAL", "PNEUMONIA"} -> {Missing} \cup {<<k>> : k \in 0..MaxCount}] :
       \E odd \in {<<"none">>, <<"folder">>}
                  \cup {<<"file", sc[1], sc[2]>> : sc \in {x \in DOMAIN held : held[x] = Missing}} :
          LET there == {sc \in DOMAIN held : held[sc] # Missing}
          IN  /\ dirs = {CountRoot}
                        \cup {join(CountRoot, split) : split \in present}
                        \cup {<<"data", sc[1], sc[2]>> : sc \in there}
                        \cup {<<"data", sc[1], sc[2], "sub">> :
                                 sc \in {x \in there : odd = <<"folder">>}}
              /\ files = [q \in UNION {{<<"data", sc[1], sc[2], CountFileNames[k]>> :
                                           k \in 1..held[sc][1]} : sc \in there}
                                  \cup (IF odd[1] = "file"
                                        THEN {<<"data", odd[2], odd[3]>>} ELSE {})
                            |-> q]
    /\ counted = <<>>
    /\ stats = <<>>
    /\ lastRun = NoRun /\ runs = 0
    /\ NoSplit /\ NoFetch

CountRun ==
    \E r \in {get_dataset_counts(FS, CountRoot)} :
        /\ counted' = [status |-> r.status, warnings |-> r.warnings, table |-> r.table,
                       before |-> FS]
        /\ dirs' = r.fs.dirs
        /\ files' = r.fs.files
        /\ UNCHANGED <<stats, reorgVars, splitVars, fetchVars>>

StatsRun ==
    \E r \in {get_dataset_stats(FS, CountRoot)} :
        /\ stats' = [status |-> r.status]
        /\ dirs' = r.fs.dirs
        /\ files' = r.fs.files
        /\ UNCHANGED <<counted, reorgVars, splitVars, fetchVars>>

SpecCount == InitCount /\ [][CountRun \/ StatsRun]_vars

(***************************************************************************)
(* fetch_nih_data(data_dest, extract), one step for each call that may     *)
(* raise: urllib.request.urlretrieve, and tarfile's open and extractall.   *)
(***************************************************************************)
links ==
    << "https://nihcc.box.com/shared/static/vfk49d74nhbxq3nqjg0900w5nvkorp5c.gz",
       "https://nihcc.box.com/shared/static/i28rlmbvmfjbl8p2n3ril0pptcmcu9d1.gz",
       "https://nihcc.box.com/shared/static/f1t00wrtdk94satdfb9olcolqx20z2jp.gz",
       "https://nihcc.box.com/shared/static/0aowwzs5lhjrceb3qp67ahp0rd1l1etg.gz",
       "https://nihcc.box.com/shared/static/v5e3goj22zr6h8tzualxfsqlqaygfbsn.gz",
       "https://nihcc.box.com/shared/static/asi7ikud9jwnkrnkj99jnpfkjdes7l6l.gz",
       "https://nihcc.box.com/shared/static/jn1b4mw4n6lnh74ovmcjb8y48h8xj07n.gz",
       "https://nihcc.box.com/shared/static/tvpxmn7qyrgl0w8wfh9kqfjskv6nmm1j.gz",
       "https://nihcc.box.com/shared/static/upyy3ml7qdumlgk2rfcvlb9k6gvqq2pj.gz",
       "https://nihcc.box.com/shared/static/l6nilvfa9cg3s28tqv1qc1olm3gnz54p.gz",
       "https://nihcc.box.com/shared/static/hhq8fkdgvcari67vfhs7ppg2w6ni4jze.gz",
       "https://nihcc.box.com/shared/static/ioqwiy20ihqwyr8pf4c24eazhh281pbu.gz" >>

DigitChars == <<"0", "1", "2", "3", "4", "5", "6", "7", "8", "9">>

RECURSIVE Decimal(_)
Decimal(k) ==
    IF k < 10 THEN <<DigitChars[k + 1]>>
    ELSE Decimal(k \div 10) \o <<DigitChars[(k % 10) + 1]>>

\* f'{k:02d}': the decimal digits of k, padded with zeros to two places
Format02d(k) == IF Len(Decimal(k)) < 2 THEN <<"0">> \o Decimal(k) ELSE Decimal(k)

\* fn = f'images_{idx+1:02d}.tar.gz', as its pieces

ArchiveName(idx) == <<"images_">> \o Format02d(idx + 1) \o <<".tar.gz">>

\* The loop goes on to the next link, or ends after the last.
NextLink(f) ==
    IF f.idx + 1 < Len(links)
    THEN [f EXCEPT !.idx = @ + 1, !.pc = "download"]
    ELSE [f EXCEPT !.idx = @ + 1, !.pc = "done"]

\* After urlretrieve: an exception leaves the function; otherwise the
\* archive is extracted when asked for.
MutAfterDownloadGoesOn(f, ok) ==
    IF f.extract /\ ok THEN [f EXCEPT !.pc = "extract"] ELSE NextLink(f)

AfterDownload(f, ok) ==
    IF ~ok THEN [f EXCEPT !.pc = "failed"]
    ELSE IF f.extract THEN [f EXCEPT !.pc = "extract"]
    ELSE NextLink(f)

\* After the with block: an exception leaves the function.
AfterExtract(f, ok) ==
    IF ~ok THEN [f EXCEPT !.pc = "failed"] ELSE NextLink(f)

\* urllib.request.urlretrieve(url, filename): the URL is opened, then the
\* file, then the blocks are copied.  net is what the network does: stage
\* says how far the call gets, status is the name of the exception that
\* leaves it ("raises" for one of any other class).  In stage "urlopen" the
\* call ends before filename is opened; in stage "read" it ends while the
\* blocks are copied, or after them when fewer bytes came than the headers
\* announced, and what was written stays in filename.
NetOutcomes ==
    {[stage |-> "done", status |-> "ok"]}
    \cup [stage : {"urlopen"},
          status : {"URLError", "HTTPError", "RemoteDisconnected", "BadStatusLine",
                    "ConnectionResetError", "TimeoutError", "raises"}]
    \cup [stage : {"read"},
          status : {"ContentTooShortError", "IncompleteRead",
                    "ConnectionResetError", "TimeoutError", "raises"}]

urlretrieve(fs, url, filename, net) ==
    IF net.stage = "urlopen" THEN [status |-> net.status, fs |-> fs]
    ELSE IF filename \in fs.dirs THEN [status |-> "IsADirectoryError", fs |-> fs]
    ELSE IF Len(filename) > 1 /\ parent(filename) \notin fs.dirs
    THEN [status |-> missing_error(fs, filename), fs |-> fs]
    ELSE [status |-> net.status,
          fs |-> [fs EXCEPT !.files =
                     (filename :> <<url, IF net.stage = "done" THEN "whole" ELSE "part">>)
                     @@ @]]

\* What an archive holds: the images folder and, named here after the
\* archive, an image in it.
ArchiveMembers(idx) ==
    << [path |-> <<"images">>, isdir |-> TRUE],
       [path |-> <<"images", ArchiveName(idx)>>, isdir |-> FALSE] >>

\* How far tarfile gets with an archive: done members are extracted whole;
\* part says that the file member after them is on disk in part; raises
\* says that an exception leaves the with block.  An archive that is cut
\* raises where it ends: on opening, between members, inside a file
\* member's data, or after the last member (in the gzip trailer).
ExtractOutcomes(idx) ==
    {o \in [done : 0..Len(ArchiveMembers(idx)), part : BOOLEAN, raises : BOOLEAN] :
        /\ o.done < Len(ArchiveMembers(idx)) => o.raises
        /\ o.part => /\ o.done < Len(ArchiveMembers(idx))
                     /\ ~ArchiveMembers(idx)[o.done + 1].isdir}

\* tarfile.open(file_path, 'r:gz') and tar.extractall(path=data_dest).
extractall(fs, file_path, data_dest, idx, o) ==
    LET members == ArchiveMembers(idx)
        whole == {members[k] : k \in 1..o.done}
        cut == IF o.part THEN {members[o.done + 1]} ELSE {}
        folders == {data_dest \o m.path : m \in {x \in whole : x.isdir}}
        written == {m \in whole \cup cut : ~m.isdir}
        above == {parent(data_dest \o m.path) : m \in written}
    IN  IF ~isfile(fs, file_path)
        THEN [status |-> IF file_path \in fs.dirs THEN "IsADirectoryError"
                         ELSE missing_error(fs, file_path),
              fs |-> fs]
        ELSE [status |-> IF o.raises THEN "raises" ELSE "ok",
              fs |-> [dirs |-> fs.dirs
                               \cup UNION {{SubSeq(q, 1, k) : k \in 1..Len(q)} :
                                               q \in folders \cup above},
                      files |-> [q \in {data_dest \o m.path : m \in written}
                                   |-> <<file_path,
                                         IF \E m \in cut : data_dest \o m.path = q
                                         THEN "part" ELSE "whole">>]
                                @@ fs.files]]

\* kagglehub.dataset_download(handle, path=data_dest) is the whole of
\* fetch_data_kaggle.  The library is not part of the repository: it raises,
\* or it returns the path where it has put what it downloaded, its own
\* cache or data_dest.
KagglehubCache == <<"kagglehub">>

KaggleDownload(data_path) ==
    [dirs |-> {SubSeq(data_path, 1, k) : k \in 1..Len(data_path)}
              \cup {join(data_path, "chest_xray")}
              \cup {join(join(data_path, "chest_xray"), split) :
                      split \in {"train", "val", "test"}}
              \cup {join(join(join(data_path, "chest_xray"), split), c) :
                      split \in {"train", "val", "test"}, c \in ClassNames},
     files |-> [q \in {join(join(join(join(data_path, "chest_xray"), "train"), c), "a") :
                          c \in ClassNames}
                  |-> q]]

fetch_data_kaggle(fs, data_dest, outcome) ==
    IF outcome = "raises" THEN [status |-> "raises", data_path |-> <<>>, fs |-> fs]
    ELSE LET data_path == IF outcome = "cache" THEN KagglehubCache ELSE data_dest
             got == KaggleDownload(data_path)
         IN  [status |-> "ok", data_path |-> data_path,
              fs |-> [dirs |-> fs.dirs \cup got.dirs, files |-> got.files @@ fs.files]]

FetchDests == {<<"raw">>, <<"nih">>}

InitFetch ==
    /\ fetch \in [data_dest : FetchDests, extract : BOOLEAN, idx : {0}, pc : {"download"}]
    /\ fetch_log = <<>>
    /\ kaggle_fetched = <<>>
    /\ dirs \in {{}, {fetch.data_dest}}
    /\ files = <<>>
    /\ lastRun = NoRun /\ runs = 0
    /\ NoSplit /\ NoCount

Download ==
    /\ fetch.pc = "download"
    /\ \E net \in NetOutcomes :
       \E r \in {urlretrieve(FS, links[fetch.idx + 1],
                             join(fetch.data_dest, ArchiveName(fetch.idx)), net)} :
         /\ fetch_log' = Append(fetch_log,
                [call |-> "urlretrieve", link |-> links[fetch.idx + 1],
                 file_path |-> join(fetch.data_dest, ArchiveName(fetch.idx)),
                 status |-> r.status, ok |-> r.status = "ok"])
         /\ fetch' = AfterDownload(fetch, r.status = "ok")
         /\ dirs' = r.fs.dirs
         /\ files' = r.fs.files
    /\ UNCHANGED <<kaggle_fetched, reorgVars, splitVars, countVars>>

Extract ==
    /\ fetch.pc = "extract"
    /\ \E o \in ExtractOutcomes(fetch.idx) :
       \E r \in {extractall(FS, join(fetch.data_dest, ArchiveName(fetch.idx)),
                            fetch.data_dest, fetch.idx, o)} :
         /\ fetch_log' = Append(fetch_log,
                [call |-> "extractall", link |-> "",
                 file_path |-> join(fetch.data_dest, ArchiveName(fetch.idx)),
                 status |-> r.status, ok |-> r.status = "ok"])
         /\ fetch' = AfterExtract(fetch, r.status = "ok")
         /\ dirs' = r.fs.dirs
         /\ files' = r.fs.files
    /\ UNCHANGED <<kaggle_fetched, reorgVars, splitVars, countVars>>

FetchKaggle ==
    /\ \E data_dest \in FetchDests, outcome \in {"raises", "cache", "data_dest"} :
       \E r \in {fetch_data_kaggle(FS, data_dest, outcome)} :
         /\ kaggle_fetched' = [status |-> r.status, data_dest |-> data_dest,
                               data_path |-> r.data_path]
         /\ dirs' = r.fs.dirs
         /\ files' = r.fs.files
    /\ UNCHANGED <<fetch, fetch_log, reorgVars, splitVars, countVars>>

SpecFetch == InitFetch /\ [][Download \/ Extract \/ FetchKaggle]_vars

(***************************************************************************)
(* Properties.                                                             *)
(***************************************************************************)
Min(a, b) == IF a < b THEN a ELSE b
Max(a, b) == IF a < b THEN b ELSE a

\* The three ratios add up to 1, in exact arithmetic.
ExactSumIsOne(r) ==
    r[1][1] * r[2][2] * r[3][2] + r[2][1] * r[1][2] * r[3][2]
        + r[3][1] * r[1][2] * r[2][2]
    = r[1][2] * r[2][2] * r[3][2]

\* ceil(p/q * n), in exact arithmetic.
ExactCeil(lit, n) == (lit[1] * n + lit[2] - 1) \div lit[2]

Elems(seq) == {seq[k] : k \in 1..Len(seq)}

DefaultRatios == << <<8, 10>>, <<1, 10>>, <<1, 10>> >>

Sizes(sp) == <<Len(sp.train), Len(sp.val), Len(sp.test)>>

\* C1: when the ratios do not sum to 1.0 a reorganizer call fails with the
\* assertion error and has done no I/O: nothing listed or read, no
\* directory made, no file copied.
C1_InvalidRatiosFailBeforeIO ==
    (lastRun.op # "none" /\ ~ExactSumIsOne(lastRun.split_ratios))
        => /\ lastRun.status = "AssertionError"
           /\ lastRun.io = {}
           /\ files = lastRun.before

\* C2: for ratios summing to 1.0 and a list of n images, the sizes of the
\* train, val and test slices add up to n, in both reorganizers.
C2_SliceSizesSumToN ==
    \A v \in DOMAIN split_out :
        (split_out[v].status = "ok" /\ ExactSumIsOne(split_in.split_ratios))
            => Len(split_out[v].sp.train) + Len(split_out[v].sp.val)
                 + Len(split_out[v].sp.test) = split_in.n

C2_Witness ==
    /\ DOMAIN split_out = {"kaggle", "nih"}
    /\ split_in.split_ratios = DefaultRatios
    /\ split_in.n = 10
    /\ \A v \in DOMAIN split_out :
          split_out[v].status = "ok" /\ Sizes(split_out[v].sp) = <<8, 1, 1>>

\* C3: no image path is in more than one of the three slices of a class.
C3_SlicesDisjoint ==
    \A c \in DOMAIN lastRun.slices :
        LET sp == lastRun.slices[c]
        IN  /\ Elems(sp.train) \cap Elems(sp.val) = {}
            /\ Elems(sp.train) \cap Elems(sp.test) = {}
            /\ Elems(sp.val) \cap Elems(sp.test) = {}

\* C4 as first stated: train holds ceil(r_train * n) images, val holds
\* ceil(r_val * n) and test max(0, n - train - val); the default ratios give
\* 8, 1, 1 for n = 10 and 3, 1, 0 for n = 3.
C4_SizesAsStated ==
    \A v \in DOMAIN split_out :
        split_out[v].status = "ok"
            => LET r  == split_in.split_ratios
                   n  == split_in.n
                   sp == split_out[v].sp
                   t  == ExactCeil(r[1], n)
                   w  == ExactCeil(r[2], n)
               IN  /\ Sizes(sp) = <<t, w, Max(0, n - t - w)>>
                   /\ (r = DefaultRatios /\ n = 10) => Sizes(sp) = <<8, 1, 1>>
                   /\ (r = DefaultRatios /\ n = 3) => Sizes(sp) = <<3, 1, 0>>

\* C4, amended: train holds min(n, ceil(r_train * n)) images, val holds
\* min(ceil(r_val * n), n - train) and test the n - train - val that are
\* left; the products are taken in double precision, whose ceiling is the
\* exact one or one more (the exact one for ratios in tenths); the default
\* ratios give 8, 1, 1 for n = 10 and 3, 0, 0 for n = 3.
C4_SliceSizes ==
    \A v \in DOMAIN split_out :
        split_out[v].status = "ok"
            => LET r  == split_in.split_ratios
                   n  == split_in.n
                   sp == split_out[v].sp
                   t  == CeilOfProduct(r[1], n)
                   w  == CeilOfProduct(r[2], n)
               IN  /\ t \in {ExactCeil(r[1], n), ExactCeil(r[1], n) + 1}
                   /\ w \in {ExactCeil(r[2], n), ExactCeil(r[2], n) + 1}
                   /\ r[1] \in Tenths => t = ExactCeil(r[1], n)
                   /\ r[2] \in Tenths => w = ExactCeil(r[2], n)
                   /\ Len(sp.train) = Min(n, t)
                   /\ Len(sp.val) = Min(w, n - Len(sp.train))
                   /\ Len(sp.test) = n - Len(sp.train) - Len(sp.val)
                   /\ (r = DefaultRatios /\ n = 10) => Sizes(sp) = <<8, 1, 1>>
                   /\ (r = DefaultRatios /\ n = 3) => Sizes(sp) = <<3, 0, 0>>

C4_Witness ==
    /\ DOMAIN split_out = {"kaggle", "nih"}
    /\ split_in.split_ratios = DefaultRatios
    /\ split_in.n = 3
    /\ \A v \in DOMAIN split_out :
          /\ split_out[v].status = "ok"
          /\ split_out[v].sp.train_size = 3
          /\ split_out[v].sp.val_size = 1
          /\ Sizes(split_out[v].sp) = <<3, 0, 0>>

\* The files a tree holds at or below a path.
FilesUnder(fs_files, root) ==
    {q \in DOMAIN fs_files : Len(q) > Len(root) /\ SubSeq(q, 1, Len(root)) = root}

\* C5: a reorganization run deletes no source file and changes none: every
\* file the source tree held before the run is there after it, with the
\* content it had.
C5_SourceFilesKept ==
    lastRun.op # "none"
        => \A q \in FilesUnder(lastRun.before, lastRun.source) :
              q \in DOMAIN files /\ files[q] = lastRun.before[q]

\* The splits of the destination under which a class holds a file of a name.
SplitsOfName(dest, class_name, name) ==
    {split \in {"train", "val", "test"} :
        join(join(join(dest, split), class_name), name) \in DOMAIN files}

\* C7: after a run into a destination other than its source, every image
\* name of a class of the source is under exactly one split of the
\* destination, and no name of a class is under two splits.
C7_OneSplitPerName ==
    (lastRun.op = "kaggle" /\ lastRun.status = "ok" /\ lastRun.dest # lastRun.source)
        => \A c \in ClassNames :
              /\ \A name \in ImageNames :
                    Cardinality(SplitsOfName(lastRun.dest, c, name)) <= 1
              /\ \A q \in SourceImages([dirs |-> dirs, files |-> lastRun.before],
                                       lastRun.source, c) :
                    Cardinality(SplitsOfName(lastRun.dest, c, basename(q))) = 1

\* The paths of the rows of a table whose label is one of a set, in order.
RowsLabelled(table, labels) ==
    LET rows == SelectSeq(table, LAMBDA row : row.finding_labels \in labels)
    IN  [k \in 1..Len(rows) |-> <<"nih", "images", rows[k].image_index>>]

\* C6 as first stated: a row goes to PNEUMONIA when its labels contain
\* "Pneumonia", to NORMAL when they contain "No Finding", and to neither
\* list when they contain both substrings or none of them.
C6_BothExcluded ==
    lastRun.op = "nih"
        => /\ lastRun.lists.PNEUMONIA
                = RowsLabelled(lastRun.table, {Str_Pneumonia_Infiltration})
           /\ lastRun.lists.NORMAL = RowsLabelled(lastRun.table, {Str_No_Finding})

\* C6, amended: a row goes to PNEUMONIA when its labels contain "Pneumonia",
\* whether or not they also contain "No Finding"; to NORMAL when they
\* contain "No Finding" and not "Pneumonia"; to neither list when they
\* contain none of the two ("Pneumothorax" does not contain "Pneumonia").
C6_PneumoniaFirst ==
    lastRun.op = "nih"
        => /\ lastRun.lists.PNEUMONIA
                = RowsLabelled(lastRun.table,
                      {Str_Pneumonia_Infiltration, Str_No_Finding_Pneumonia})
           /\ lastRun.lists.NORMAL = RowsLabelled(lastRun.table, {Str_No_Finding})

C6_Witness ==
    /\ lastRun.op = "nih"
    /\ Len(lastRun.table) = 2
    /\ lastRun.table[1].finding_labels = Str_No_Finding_Pneumonia
    /\ lastRun.table[2].finding_labels = Str_Pneumothorax
    /\ lastRun.lists.PNEUMONIA = <<<<"nih", "images", lastRun.table[1].image_index>>>>
    /\ lastRun.lists.NORMAL = <<>>

\* C8: in the counts table the Total row of a class is the sum of the
\* class's counts over train, val and test, the Total column of a split is
\* its NORMAL plus its PNEUMONIA, and the grand total is the sum of the two
\* class totals.
C8_TotalsAddUp ==
    (counted # <<>> /\ counted.status = "ok")
        => LET t == counted.table
           IN  /\ \A c \in {"NORMAL", "PNEUMONIA"} :
                     t["Total"][c] = t["train"][c] + t["val"][c] + t["test"][c]
               /\ \A s \in {"train", "val", "test"} :
                     t[s]["Total"] = t[s]["NORMAL"] + t[s]["PNEUMONIA"]
               /\ t["Total"]["Total"] = t["Total"]["NORMAL"] + t["Total"]["PNEUMONIA"]

C8_Witness ==
    /\ counted # <<>>
    /\ counted.status = "ok"
    /\ counted.table["train"]["NORMAL"] = 2
    /\ counted.table["test"]["PNEUMONIA"] = 1
    /\ counted.table["val"]["NORMAL"] = 1
    /\ counted.table["val"]["PNEUMONIA"] = 2
    /\ counted.table["Total"]["Total"] = 6

\* The regular files directly in a folder of a tree.
RegularFilesIn(fs, folder) ==
    {q \in DOMAIN fs.files :
        Len(q) = Len(folder) + 1 /\ SubSeq(q, 1, Len(folder)) = folder}

Warned(q) == \E k \in 1..Len(counted.warnings) : counted.warnings[k] = q

\* The tree the call was made on has no regular file in the place of an
\* expected folder: each of them is a folder or is missing.
FoldersOrMissing ==
    \A s \in {"train", "val", "test"} :
        /\ <<"data", s>> \notin DOMAIN counted.before.files
        /\ \A c \in {"NORMAL", "PNEUMONIA"} :
              <<"data", s, c>> \notin DOMAIN counted.before.files

\* What C9 says of the counts and of the file, whatever the warnings are:
\* the call does not fail, a missing folder counts 0, a folder that exists
\* counts its regular files, and the table is written at the dataset root.
CountsDespiteMissing ==
    /\ counted.status = "ok"
    /\ \A s \in {"train", "val", "test"}, c \in {"NORMAL", "PNEUMONIA"} :
          LET cf == <<"data", s, c>>
          IN  counted.table[s][c] =
                 IF cf \in counted.before.dirs
                 THEN Cardinality(RegularFilesIn(counted.before, cf))
                 ELSE 0
    /\ <<"data", "dataset_counts.txt">> \in DOMAIN files
    /\ files[<<"data", "dataset_counts.txt">>] = counted.table

\* C9 as first stated: on a tree whose expected folders are folders or
\* missing, the call does not fail, every missing split folder and every
\* missing (split, class) folder is reported by a warning and counts 0,
\* the folders that exist count their regular files, and the table is
\* written at the dataset root.
C9_EveryMissingFolderWarned ==
    (counted # <<>> /\ FoldersOrMissing)
        => /\ CountsDespiteMissing
           /\ \A s \in {"train", "val", "test"} :
                 /\ <<"data", s>> \notin counted.before.dirs => Warned(<<"data", s>>)
                 /\ \A c \in {"NORMAL", "PNEUMONIA"} :
                       <<"data", s, c>> \notin counted.before.dirs
                           => Warned(<<"data", s, c>>)

\* C9, amended: on a tree whose expected folders are folders or missing,
\* the call does not fail; there is one warning for each missing split
\* folder and one for each missing class folder of a split folder that
\* exists, and no other (the class folders of a missing split folder get
\* no warning of their own); a missing folder counts 0, the folders that
\* exist count their regular files, and the table is written at the
\* dataset root.
C9_MissingFoldersWarned ==
    (counted # <<>> /\ FoldersOrMissing)
        => LET missing ==
                  {<<"data", s>> : s \in {x \in {"train", "val", "test"} :
                                            <<"data", x>> \notin counted.before.dirs}}
                  \cup {q \in {<<"data", s, c>> : s \in {"train", "val", "test"},
                                                  c \in {"NORMAL", "PNEUMONIA"}} :
                          /\ <<"data", q[2]>> \in counted.before.dirs
                          /\ q \notin counted.before.dirs}
           IN  /\ CountsDespiteMissing
               /\ {counted.warnings[k] : k \in 1..Len(counted.warnings)} = missing
               /\ Len(counted.warnings) = Cardinality(missing)

C9_Witness ==
    /\ counted # <<>>
    /\ counted.status = "ok"
    /\ <<"data", "train">> \notin counted.before.dirs
    /\ ~Warned(<<"data", "train", "NORMAL">>)
    /\ <<"data", "test">> \in counted.before.dirs
    /\ <<"data", "test", "NORMAL">> \notin counted.before.dirs
    /\ Warned(<<"data", "test", "NORMAL">>)
    /\ <<"data", "val", "PNEUMONIA", "sub">> \in counted.before.dirs
    /\ counted.table["val"]["PNEUMONIA"] = 2
    /\ counted.table["train"]["NORMAL"] = 0
    /\ counted.table["test"]["NORMAL"] = 0

\* The names of the twelve archives.
ExpectedArchives ==
    << <<"images_", "0", "1", ".tar.gz">>, <<"images_", "0", "2", ".tar.gz">>,
       <<"images_", "0", "3", ".tar.gz">>, <<"images_", "0", "4", ".tar.gz">>,
       <<"images_", "0", "5", ".tar.gz">>, <<"images_", "0", "6", ".tar.gz">>,
       <<"images_", "0", "7", ".tar.gz">>, <<"images_", "0", "8", ".tar.gz">>,
       <<"images_", "0", "9", ".tar.gz">>, <<"images_", "1", "0", ".tar.gz">>,
       <<"images_", "1", "1", ".tar.gz">>, <<"images_", "1", "2", ".tar.gz">> >>

\* C10: the archives are fetched in list order, the i-th link saved as
\* images_<i in two digits>.tar.gz; the download of an archive follows the
\* successful download (and extraction, when asked for) of the one before;
\* a failure is the last call of the run.
C10_InOrderUntilFailure ==
    LET downloads == SelectSeq(fetch_log, LAMBDA e : e.call = "urlretrieve")
        last == Len(fetch_log)
    IN  /\ Len(downloads) <= 12
        /\ \A i \in 1..Len(downloads) :
              /\ downloads[i].link = links[i]
              /\ downloads[i].file_path = join(fetch.data_dest, ExpectedArchives[i])
        /\ \A k \in 1..(last - 1) : fetch_log[k].ok
        /\ \A k \in 1..last :
              IF fetch.extract
              THEN fetch_log[k].call
                      = (IF k % 2 = 1 THEN "urlretrieve" ELSE "extractall")
              ELSE fetch_log[k].call = "urlretrieve"
        /\ \A k \in 2..last :
              fetch_log[k].call = "extractall"
                  => fetch_log[k].file_path = fetch_log[k - 1].file_path
        /\ (last > 0 /\ ~fetch_log[last].ok) => fetch.pc = "failed"
        /\ fetch.pc = "failed" => (last > 0 /\ ~fetch_log[last].ok)
        /\ fetch.pc = "done"
              => Len(downloads) = 12 /\ \A k \in 1..last : fetch_log[k].ok

C10_Witness ==
    /\ fetch # <<>>
    /\ fetch.pc = "failed"
    /\ fetch.extract
    /\ Len(fetch_log) = 6
    /\ fetch_log[5].call = "urlretrieve"
    /\ fetch_log[5].link = links[3]
    /\ fetch_log[6].call = "extractall"
    /\ ~fetch_log[6].ok

====
